---- MODULE Spec2Model ----
(***************************************************************************)
(* PersistentChat plugin (src/main.py): persistence of chat turns and      *)
(* re-injection of the stored history into the provider request.           *)
(*                                                                         *)
(* Text is a sequence of tokens.  A token is one character, except that    *)
(* the following literals of the source are each one token:                *)
(*   "I"  the three characters following "[" in the marker  [图片:name]    *)
(*   "D"  图片下载失败      (inside the download-failure placeholder)      *)
(*   "U"  用户发送了图片    (inside the history image-only placeholder)    *)
(*   "L"  用户最新消息只发送了图片 (inside the current-turn placeholder)   *)
(*   "G"  the glyph 图片 of the text-only rendering                        *)
(*   "f1", "f2", ...  a generated file name  <time>_<uuid8><ext>           *)
(*   "A"  a sender's display name,  "u" the fallback label User,           *)
(*   "a"  the display name "assistant" stored with the bot's own rows      *)
(***************************************************************************)
EXTENDS Integers, Sequences, FiniteSets, TLC

(* ------------------------------ bounds --------------------------------- *)
MaxRows == 2
MaxFiles == 1
MaxClock == 1
MaxHist == 3
MaxTurns == 4
MaxTurnFiles == 2

(* --------------------------- string helpers ---------------------------- *)
SP == " "

RECURSIVE lstrip(_)
\* str.lstrip(): drop leading whitespace
lstrip(t) ==
    IF t # <<>> /\ Head(t) = SP THEN lstrip(Tail(t)) ELSE t

RECURSIVE rstrip(_)
\* str.rstrip(): drop trailing whitespace
rstrip(t) ==
    IF t # <<>> /\ t[Len(t)] = SP THEN rstrip(SubSeq(t, 1, Len(t) - 1)) ELSE t

\* str.strip()
strip(t) == rstrip(lstrip(t))

RECURSIVE join(_)
\* " ".join(parts) for a sequence of texts
join(parts) ==
    IF parts = <<>> THEN <<>>
    ELSE IF Len(parts) = 1 THEN parts[1]
    ELSE parts[1] \o <<SP>> \o join(Tail(parts))

RECURSIVE repeat(_, _)
\* t * n
repeat(t, n) == IF n <= 0 THEN <<>> ELSE t \o repeat(t, n - 1)

\* str.startswith('/')
startswith_slash(t) == t # <<>> /\ t[1] = "/"

(* ------------- the marker pattern  \[图片:([^\]]+)\]  ------------------- *)
\* index of the first "]" at or after position j, 0 when there is none
FirstClose(t, j) ==
    IF \E k \in j..Len(t) : t[k] = "]"
    THEN CHOOSE k \in j..Len(t) : t[k] = "]" /\ \A m \in j..(k - 1) : t[m] # "]"
    ELSE 0

\* end position of a match of the pattern starting at position i, 0 when none:
\* "[" "I", then one or more tokens other than "]", then "]"
MatchEnd(t, i) ==
    IF i + 3 <= Len(t) /\ t[i] = "[" /\ t[i + 1] = "I" /\ t[i + 2] # "]"
    THEN FirstClose(t, i + 3)
    ELSE 0

RECURSIVE FindFrom(_, _)
\* image_pattern.findall scanning from position i: the captured groups
FindFrom(t, i) ==
    IF i > Len(t) THEN <<>>
    ELSE IF MatchEnd(t, i) # 0
         THEN <<SubSeq(t, i + 2, MatchEnd(t, i) - 1)>> \o FindFrom(t, MatchEnd(t, i) + 1)
         ELSE FindFrom(t, i + 1)

image_pattern_findall(t) == FindFrom(t, 1)

RECURSIVE SubFrom(_, _)
\* image_pattern.sub("", t) scanning from position i
SubFrom(t, i) ==
    IF i > Len(t) THEN <<>>
    ELSE IF MatchEnd(t, i) # 0
         THEN SubFrom(t, MatchEnd(t, i) + 1)
         ELSE <<t[i]>> \o SubFrom(t, i + 1)

image_pattern_sub(t) == SubFrom(t, 1)

(* ------------------------ literals of the source ----------------------- *)
\* f"[图片:{saved_filename}]"                                   (line 96)
Marker(fn) == <<"[", "I">> \o fn \o <<"]">>
\* "[图片下载失败]"                                              (line 96)
DownloadFailed == <<"[", "D", "]">>
\* "[用户发送了图片]"                                            (line 163)
UserSentImage == <<"[", "U", "]">>
\* "[用户最新消息只发送了图片]"                                  (line 199)
LatestOnlyImage == <<"[", "L", "]">>
\* '[图片]'                                                      (line 173)
ImageGlyph == <<"[", "G", "]">>
\* the fallback label "User"                                     (line 175)
UserLabel == <<"u">>
\* the display name stored with the bot's own rows               (line 127)
AssistantName == <<"a">>
\* f"{display_name}: "
NamePrefix(name) == name \o <<":", SP>>

(* ----------------------------- Media Store ----------------------------- *)
\* the n-th file name generated by _download_image (time and uuid4 make it fresh)
FileNames == <<"f1", "f2", "f3", "f4">>
FileName(n) == <<FileNames[n]>>

\* os.path.exists(os.path.join(images_dir, filename))
path_exists(fn, fs) == Len(fn) = 1 /\ fn[1] \in fs

\* mutant: _path_to_base64 without the test of line 75
path_to_base64_NoCheck(fn, fs) == <<"data:">> \o fn

\* _path_to_base64: the data URI of the file, <<>> (None) when it is absent
path_to_base64(fn, fs) ==
    IF ~path_exists(fn, fs) THEN <<>> ELSE <<"data:">> \o fn

(* --------------------------- Turn Normalizer --------------------------- *)
\* message components: Plain(text), Image whose download succeeds ("ok"),
\* Image whose download yields None ("fail"), Image without url and file ("nourl")
Plain(t) == [kind |-> "Plain", text |-> t, dl |-> "-"]
Image(d) == [kind |-> "Image", text |-> <<>>, dl |-> d]

RECURSIVE Fragments(_, _)
\* the list `parts` of _process_message_chain; n files were generated before
Fragments(chain, n) ==
    IF chain = <<>> THEN <<>>
    ELSE LET comp == Head(chain) IN
         IF comp.kind = "Plain" /\ strip(comp.text) # <<>>
         THEN <<strip(comp.text)>> \o Fragments(Tail(chain), n)
         ELSE IF comp.kind = "Image" /\ comp.dl = "ok"
         THEN <<Marker(FileName(n + 1))>> \o Fragments(Tail(chain), n + 1)
         ELSE IF comp.kind = "Image" /\ comp.dl = "fail"
         THEN <<DownloadFailed>> \o Fragments(Tail(chain), n)
         ELSE Fragments(Tail(chain), n)

\* number of files _download_image writes while the chain is processed
Saved(chain) == Cardinality({i \in 1..Len(chain) : chain[i].kind = "Image" /\ chain[i].dl = "ok"})

\* the files written while the chain is processed
SavedFiles(chain, n) == {FileNames[k] : k \in (n + 1)..(n + Saved(chain))}

\* mutant: line 91 and 96 written  parts.insert(0, ...)
process_message_chain_Reversed(chain, n) ==
    LET parts == Fragments(chain, n) IN
    strip(join([i \in 1..Len(parts) |-> parts[Len(parts) + 1 - i]]))

\* _process_message_chain: the returned string
process_message_chain(chain, n) == strip(join(Fragments(chain, n)))

(* ------------------------- provider context ---------------------------- *)
\* content parts
TextPart(t) == [type |-> "text", text |-> t, url |-> <<>>]
ImagePart(uri) == [type |-> "image_url", text |-> <<>>, url |-> uri]
\* an entry's content: a str or a list of parts
StrContent(t) == [isList |-> FALSE, str |-> t, list |-> <<>>]
ListContent(l) == [isList |-> TRUE, str |-> <<>>, list |-> l]
Entry(r, c) == [role |-> r, content |-> c]

\* content if isinstance(content, list) else [{'type': 'text', 'text': str(content)}]
AsList(c) == IF c.isList THEN c.list ELSE <<TextPart(c.str)>>

(* ------------------------ Context Reconstructor ------------------------ *)
RECURSIVE ResolveImages(_, _)
\* one image part per file name whose data URI resolves, in order
ResolveImages(fns, fs) ==
    IF fns = <<>> THEN <<>>
    ELSE (IF path_to_base64(Head(fns), fs) # <<>>
          THEN <<ImagePart(path_to_base64(Head(fns), fs))>> ELSE <<>>)
         \o ResolveImages(Tail(fns), fs)

\* text_part of a history row (lines 162-163)
HistoryTextPart(message_text) ==
    LET text_part == strip(image_pattern_sub(message_text)) IN
    IF image_pattern_findall(message_text) # <<>> /\ text_part = <<>>
    THEN UserSentImage ELSE text_part

\* content_list of a history row before the name prefix (lines 165-170)
RowContentList(message_text, fs) ==
    LET text_part == HistoryTextPart(message_text) IN
    ResolveImages(image_pattern_findall(message_text), fs)
    \o (IF text_part # <<>> THEN <<TextPart(text_part)>> ELSE <<>>)

\* role of a history row (line 160)
RowRole(row, bot_self_id) == IF row.sender_id = bot_self_id THEN "assistant" ELSE "user"

\* display_name = sender_name or "User" (line 175)
DisplayName(row) == IF row.sender_name # <<>> THEN row.sender_name ELSE UserLabel

\* mutant: the prefix goes onto the first text part wherever it stands
PrefixName_FirstTextPart(content_list, display_name) ==
    IF \E i \in 1..Len(content_list) : content_list[i].type = "text"
    THEN LET i == CHOOSE i \in 1..Len(content_list) :
                      /\ content_list[i].type = "text"
                      /\ \A j \in 1..(i - 1) : content_list[j].type # "text"
         IN  [content_list EXCEPT ![i] = TextPart(NamePrefix(display_name) \o @.text)]
    ELSE <<TextPart(NamePrefix(display_name))>> \o content_list

\* the name prefix applied to a user row's content_list (lines 177-178)
PrefixName(content_list, display_name) ==
    IF content_list # <<>> /\ content_list[1].type = "text"
    THEN <<TextPart(NamePrefix(display_name) \o content_list[1].text)>> \o Tail(content_list)
    ELSE <<TextPart(NamePrefix(display_name))>> \o content_list

\* the turns one history row appends to history_contexts: none when the row
\* is skipped (line 171), else one (lines 160-180)
DecodeRow(row, bot_self_id, fs) ==
    LET content_list == RowContentList(row.message_text, fs) IN
    IF content_list = <<>> THEN <<>>
    ELSE IF RowRole(row, bot_self_id) = "user"
    THEN <<Entry("user", ListContent(PrefixName(content_list, DisplayName(row))))>>
    ELSE <<Entry("assistant", ListContent(content_list))>>

\* the text-only rendering of one history row (lines 173-176, 181)
TextOnlyRow(row, bot_self_id, fs) ==
    LET text_only_content ==
            strip(repeat(ImageGlyph, Len(image_pattern_findall(row.message_text)))
                  \o <<SP>> \o HistoryTextPart(row.message_text)) IN
    IF RowContentList(row.message_text, fs) = <<>> THEN <<>>
    ELSE IF RowRole(row, bot_self_id) = "user"
    THEN <<Entry("user", StrContent(NamePrefix(DisplayName(row)) \o text_only_content))>>
    ELSE <<Entry("assistant", StrContent(text_only_content))>>

RECURSIVE DecodeHistory(_, _, _)
\* history_contexts for history_rows given oldest first (lines 157-181)
DecodeHistory(history_rows, bot_self_id, fs) ==
    IF history_rows = <<>> THEN <<>>
    ELSE DecodeRow(Head(history_rows), bot_self_id, fs)
         \o DecodeHistory(Tail(history_rows), bot_self_id, fs)

RECURSIVE TextOnlyHistory(_, _, _)
\* text_only_contexts (lines 158-181)
TextOnlyHistory(history_rows, bot_self_id, fs) ==
    IF history_rows = <<>> THEN <<>>
    ELSE TextOnlyRow(Head(history_rows), bot_self_id, fs)
         \o TextOnlyHistory(Tail(history_rows), bot_self_id, fs)

\* rows.reverse()
Reverse(s) == [i \in 1..Len(s) |-> s[Len(s) + 1 - i]]

\* target_index: the last entry of role user, 0 when there is none (lines 189-193)
TargetIndex(contexts) ==
    IF \E i \in 1..Len(contexts) : contexts[i].role = "user"
    THEN CHOOSE i \in 1..Len(contexts) :
            contexts[i].role = "user" /\ \A j \in (i + 1)..Len(contexts) : contexts[j].role # "user"
    ELSE 0

\* the content of the target entry after rules 2 and 3 (lines 196-215)
EnhancedContent(content, current_message_text, fs) ==
    LET image_filenames == image_pattern_findall(current_message_text)
        text_part == strip(image_pattern_sub(current_message_text))
        replaced == IF image_filenames # <<>> /\ text_part = <<>>
                    THEN ListContent(<<TextPart(LatestOnlyImage)>>) ELSE content
    IN  IF image_filenames # <<>>
        THEN ListContent(ResolveImages(image_filenames, fs) \o AsList(replaced))
        ELSE replaced

\* current_turn_contexts after step 4 (lines 184-215)
EnhanceCurrent(contexts, current_message_text, fs) ==
    IF TargetIndex(contexts) = 0 THEN contexts
    ELSE [contexts EXCEPT ![TargetIndex(contexts)].content =
             EnhancedContent(@, current_message_text, fs)]

RECURSIVE MergeInto_Swapped(_, _)
\* mutant: line 229 written  current_content + last_content
MergeInto_Swapped(merged, rest) ==
    IF rest = <<>> THEN merged
    ELSE LET current_msg == Head(rest)
             last_msg == merged[Len(merged)] IN
         IF current_msg.role = last_msg.role
         THEN MergeInto_Swapped([merged EXCEPT ![Len(merged)].content =
                            ListContent(AsList(current_msg.content) \o AsList(last_msg.content))],
                        Tail(rest))
         ELSE MergeInto_Swapped(Append(merged, current_msg), Tail(rest))

RECURSIVE MergeInto(_, _)
\* the loop of lines 224-231: merged is merged_contexts so far, rest is what
\* remains of final_contexts
MergeInto(merged, rest) ==
    IF rest = <<>> THEN merged
    ELSE LET current_msg == Head(rest)
             last_msg == merged[Len(merged)] IN
         IF current_msg.role = last_msg.role
         THEN MergeInto([merged EXCEPT ![Len(merged)].content =
                            ListContent(AsList(last_msg.content) \o AsList(current_msg.content))],
                        Tail(rest))
         ELSE MergeInto(Append(merged, current_msg), Tail(rest))

\* merged_contexts of a non-empty final_contexts (lines 223-231)
MergeRoles(final_contexts) == MergeInto(<<Head(final_contexts)>>, Tail(final_contexts))

\* all(item.get('type') == 'text' for item in content)
AllText(l) == \A i \in 1..Len(l) : l[i].type = "text"

\* " ".join(item.get('text', '') for item in content).strip()
JoinTexts(l) == strip(join([i \in 1..Len(l) |-> l[i].text]))

\* mutant: the loop of lines 233-236 left out
FlattenEntry_Keep(msg) == msg

\* one entry after the flattening of lines 233-236
FlattenEntry(msg) ==
    IF msg.content.isList /\ AllText(msg.content.list)
    THEN [msg EXCEPT !.content = StrContent(JoinTexts(msg.content.list))]
    ELSE msg

Flatten(merged_contexts) == [i \in 1..Len(merged_contexts) |-> FlattenEntry(merged_contexts[i])]

\* `req.contexts or []` (line 138): the same list object when it is truthy,
\* else a new list
current_turn_ref(ctx0) == IF ctx0 # <<>> THEN "req" ELSE "new"

\* list.clear(): the object stays, its elements go
ListClear(l) == <<>>

\* the two list objects after req.contexts.clear() (line 139)
HeapAfterClear(ctx0) == [req |-> ListClear(ctx0), new |-> <<>>]

\* the value of current_turn_contexts from line 140 on
current_turn_contexts(ctx0) == HeapAfterClear(ctx0)[current_turn_ref(ctx0)]

\* what one call of inject_chat_history past the two guards of lines 131-133
\* does to the request: rows is the result of fetchall() (newest first),
\* query_fails says that the query of lines 142-146 raised
Reconstruct(ctx0, rows, query_fails, bot_self_id, fs) ==
    LET cleared == HeapAfterClear(ctx0).req
        current == current_turn_contexts(ctx0)
        history_rows == Reverse(Tail(rows))
        history_contexts == DecodeHistory(history_rows, bot_self_id, fs)
        enhanced == EnhanceCurrent(current, Head(rows).message_text, fs)
        final_contexts == history_contexts \o enhanced
        none == [contexts |-> cleared, raised |-> FALSE, rows |-> rows,
                 history_contexts |-> <<>>, final_contexts |-> <<>>,
                 merged_contexts |-> <<>>, text_only |-> <<>>]
    IN  IF query_fails
        \* the exception is caught at line 242: req.contexts stays as line 139 left it
        THEN [none EXCEPT !.raised = TRUE, !.rows = <<>>]
        ELSE IF rows = <<>>
        \* line 148
        THEN [none EXCEPT !.contexts = current]
        ELSE IF final_contexts = <<>>
        \* lines 219-221
        THEN [none EXCEPT !.text_only = TextOnlyHistory(history_rows, bot_self_id, fs)]
        \* lines 223-239
        ELSE [contexts |-> Flatten(MergeRoles(final_contexts)), raised |-> FALSE,
              rows |-> rows, history_contexts |-> history_contexts,
              final_contexts |-> final_contexts,
              merged_contexts |-> MergeRoles(final_contexts),
              text_only |-> TextOnlyHistory(history_rows, bot_self_id, fs)]

(* ------------------------------ inputs --------------------------------- *)
\* event.get_self_id()
SelfId == "bot"

\* unified_msg_origin of the events: one private chat and one group chat
Sessions == {"P", "G"}
is_private_chat(sid) == sid = "P"

\* event.get_sender_name() of the senders: "u1" has a display name, "u2" has none
SenderName(sender) == IF sender = "u1" THEN <<"A">> ELSE <<>>

\* an incoming message: the chain, event.message_str and the command the host
\* dispatches the message to ("" when it is none)
Msg(chain, str, cmd) == [chain |-> chain, str |-> str, cmd |-> cmd]

\* an incoming event: who sends which message
Event(sender, m) == [sender |-> sender, m |-> m]

\* req.contexts as the host hands it to the hook
FrameworkContexts ==
    { <<>>,
      <<Entry("system", StrContent(<<"s">>)), Entry("user", StrContent(<<"x">>))>> }

\* the inputs of the runs of Spec: both sessions, commands, every option
\* either way, failing store calls, several rows written within one second
RunInputs ==
    [ sessions |-> Sessions,
      events   |-> { Event(a, m) :
                       a \in {"u1", SelfId},
                       m \in { Msg(<<Plain(<<"x">>)>>, <<"x">>, ""),
                               Msg(<<Image("ok")>>, <<>>, ""),
                               Msg(<<Plain(<<SP>>)>>, <<SP>>, ""),
                               Msg(<<Plain(<<"/", "v">>)>>, <<"/", "v">>, "view"),
                               Msg(<<Plain(<<"/", "c">>)>>, <<"/", "c">>, "clear"),
                               Msg(<<Plain(<<"/", "C">>)>>, <<"/", "C">>, "clear_all") } },
      replies  |-> { <<>>, <<Plain(<<"y">>)>> },
      contexts |-> FrameworkContexts,
      options  |-> BOOLEAN,
      faults   |-> BOOLEAN,
      rows     |-> MaxRows,
      files    |-> MaxFiles,
      seconds  |-> MaxClock,
      spaced   |-> FALSE ]

\* the inputs of the runs of SpecTurns: one group chat with logging and
\* injection switched on, no failing store call, messages of several
\* components (the last one is typed text that reads like a marker), and
\* every row written in a second of its own
TurnInputs ==
    [ sessions |-> {"G"},
      events   |-> { Event("u1", Msg(<<Plain(<<"x">>)>>, <<"x">>, "")),
                     Event("u1", Msg(<<Image("ok")>>, <<>>, "")),
                     Event("u1", Msg(<<Plain(<<"x">>), Image("ok"), Plain(<<"z">>)>>,
                                     <<"x", "z">>, "")),
                     Event("u2", Msg(<<Image("ok"), Plain(<<"x">>), Image("ok")>>,
                                     <<"x">>, "")),
                     Event("u1", Msg(<<Plain(<<"[", "I", "f1", "]">>)>>,
                                     <<"[", "I", "f1", "]">>, "")) },
      replies  |-> { <<Plain(<<"y">>)>> },
      contexts |-> { <<Entry("user", StrContent(<<"x">>))>> },
      options  |-> {TRUE},
      faults   |-> {FALSE},
      rows     |-> MaxTurns,
      files    |-> MaxTurnFiles,
      seconds  |-> MaxTurns,
      spaced   |-> TRUE ]

\* the inputs of the runs of SpecClear: both sessions with logging switched
\* on, images, typed text that reads like a marker, the clear command, no
\* failing store call, no request to the provider
ClearInputs ==
    [ sessions |-> Sessions,
      events   |-> { Event("u1", Msg(<<Image("ok")>>, <<>>, "")),
                     Event("u1", Msg(<<Plain(<<"[", "I", "f1", "]">>)>>,
                                     <<"[", "I", "f1", "]">>, "")),
                     Event("u1", Msg(<<Plain(<<"/", "c">>)>>, <<"/", "c">>, "clear")) },
      replies  |-> { <<>> },
      contexts |-> { <<>> },
      options  |-> {TRUE},
      faults   |-> {FALSE},
      rows     |-> MaxTurns,
      files    |-> MaxTurnFiles,
      seconds  |-> MaxTurns,
      spaced   |-> TRUE ]

\* the inputs of the runs of SpecPair: the text messages of one logged group
\* chat, no reply stored, every row written in a second of its own
PairInputs ==
    [ sessions |-> {"G"},
      events   |-> { Event("u1", Msg(<<Plain(<<"x">>)>>, <<"x">>, "")) },
      replies  |-> { <<>> },
      contexts |-> { <<>> },
      options  |-> {TRUE},
      faults   |-> {FALSE},
      rows     |-> MaxTurns,
      files    |-> MaxTurnFiles,
      seconds  |-> MaxTurns,
      spaced   |-> TRUE ]

(* ------------------------------- state --------------------------------- *)
VARIABLES
    db,       \* table chat_logs, in insertion (id) order
    files,    \* names of the files in images_dir
    nfile,    \* number of file names generated since images_dir was last emptied
    clock,    \* int(time.time())
    ev        \* the events being handled, one per slot

vars == <<db, files, nfile, clock, ev>>

\* events whose handlers may interleave
Slots == {1, 2}

\* the slot used when the host handles one event after the other
Serial == {1}

\* the request of an event whose on_llm_request hook has not run; own (in
\* Idle) is the position in the table of the row log_user_message inserted
\* for the event, 0 when it inserted none
\* (called: the hook has run; off: the options it read had inject_context
\* false or max_history_messages <= 0; ctx0: req.contexts at entry; contexts:
\* req.contexts at exit; the rest are the locals of the hook)
NoReq == [called |-> FALSE, off |-> FALSE, ctx0 |-> <<>>, contexts |-> <<>>,
          raised |-> FALSE, rows |-> <<>>, history_contexts |-> <<>>,
          final_contexts |-> <<>>, merged_contexts |-> <<>>, text_only |-> <<>>]

Idle == [pc |-> "idle", session |-> "-", cmd |-> "", is_command_response |-> FALSE,
         logged |-> FALSE, own |-> 0, req |-> NoReq]

\* a row of chat_logs; src is no column: it records the message components
\* the text was made from and the names of the files saved for its images
Row(sid, sender, name, text, ts, src) ==
    [session_id |-> sid, sender_id |-> sender, sender_name |-> name,
     message_text |-> text, timestamp |-> ts, src |-> src]

Src(chain, n) == [chain |-> chain, saved |-> [k \in 1..Saved(chain) |-> FileNames[n + k]]]

Init ==
    /\ db = <<>>
    /\ files = {}
    /\ nfile = 0
    /\ clock = 0
    /\ ev = [s \in Slots |-> Idle]

(* ---------------------------- Record Store ----------------------------- *)
\* mutant: line 103 written  INSERT OR REPLACE  onto the newest row
save_log_to_db_Replace(table, sid, sender, name, message_text, ts, src, insert_fails) ==
    IF table = <<>> THEN <<Row(sid, sender, name, message_text, ts, src)>>
    ELSE [table EXCEPT ![Len(table)] = Row(sid, sender, name, message_text, ts, src)]

\* _save_log_to_db: the table after the call; the INSERT may raise (logged)
save_log_to_db(table, sid, sender, name, message_text, ts, src, insert_fails) ==
    IF message_text = <<>> \/ insert_fails THEN table
    ELSE Append(table, Row(sid, sender, name, message_text, ts, src))

\* a row may be written now: always, unless the inputs put every row in a
\* second of its own and the newest row was written in this second
MayWrite(table, now, In) ==
    IF ~In.spaced \/ table = <<>> THEN TRUE ELSE table[Len(table)].timestamp < now

\* positions of the rows of a session
SessionIdx(table, sid) == {i \in 1..Len(table) : table[i].session_id = sid}

\* mutant: the query without its WHERE clause
Selected_AnySession(table, sid) == 1..Len(table)

\* the rows  WHERE session_id = ?  selects, as positions of the table
Selected(table, sid) == SessionIdx(table, sid)

RECURSIVE OrdersOf(_, _)
\* the sequences of the positions idx by descending timestamp
OrdersOf(table, idx) ==
    IF idx = {} THEN {<<>>}
    ELSE UNION { { <<i>> \o rest : rest \in OrdersOf(table, idx \ {i}) } :
                 i \in {j \in idx : \A k \in idx : table[j].timestamp >= table[k].timestamp} }

\* the orders in which  ... ORDER BY timestamp DESC  may return the selected
\* rows: rows of equal timestamp come in an order SQL leaves open
QueryOrders(table, sid) == OrdersOf(table, Selected(table, sid))

\* LIMIT ?
Limit(s, n) == SubSeq(s, 1, IF Len(s) < n THEN Len(s) ELSE n)

\* fetchall() of lines 142-146 when the rows come in the order p
FetchRows(table, p, max_history) ==
    Limit([i \in 1..Len(p) |-> table[p[i]]], max_history + 1)

(* ------------------------------ handlers ------------------------------- *)
\* the options are read with self.config.get on every call; the host may
\* change them between two calls, so each handler draws the ones it reads

\* mutant: log_user_message without the return of line 112
LogUserSkips_NoSlash(sid, sender, message_str, log_messages) ==
    \/ is_private_chat(sid) /\ ~log_messages
    \/ ~is_private_chat(sid) /\ ~log_messages
    \/ sender = SelfId

\* the early returns of log_user_message (lines 112-115); log_messages is the
\* one option the condition reads: log_private_messages in a private chat,
\* log_group_messages in a group chat
LogUserSkips(sid, sender, message_str, log_messages) ==
    \/ startswith_slash(strip(message_str))
    \/ is_private_chat(sid) /\ ~log_messages
    \/ ~is_private_chat(sid) /\ ~log_messages
    \/ sender = SelfId

\* log_user_message, the first handler of every incoming message
LogUserMessage(s, In) ==
    /\ ev[s].pc = "idle"
    /\ \E sid \in In.sessions, e \in In.events, log_messages \in In.options :
        LET sender == e.sender
            m == e.m IN
        IF LogUserSkips(sid, sender, m.str, log_messages)
        THEN /\ ev' = [ev EXCEPT ![s] = [Idle EXCEPT !.pc = "handle", !.session = sid,
                                                      !.cmd = m.cmd]]
             /\ UNCHANGED <<db, files, nfile>>
        ELSE \E insert_fails \in In.faults :
            LET processed_text == process_message_chain(m.chain, nfile)
                table == save_log_to_db(db, sid, sender, SenderName(sender), processed_text,
                                        clock, Src(m.chain, nfile), insert_fails)
            IN  /\ nfile + Saved(m.chain) <= In.files
                /\ Len(table) <= In.rows
                /\ MayWrite(db, clock, In)
                /\ db' = table
                /\ files' = files \cup SavedFiles(m.chain, nfile)
                /\ nfile' = nfile + Saved(m.chain)
                /\ ev' = [ev EXCEPT ![s] = [Idle EXCEPT !.pc = "handle", !.session = sid,
                                                         !.cmd = m.cmd,
                                                         !.logged = table # db,
                                                         !.own = IF table # db
                                                                 THEN Len(table) ELSE 0]]
    /\ UNCHANGED clock

\* mutant: the guard of line 133 written  max_history < 0
InjectionEnabled_ZeroRuns(inject_context, max_history) == inject_context /\ max_history >= 0

\* the guards of lines 131-133
InjectionEnabled(inject_context, max_history) == inject_context /\ max_history > 0

\* inject_chat_history: the request after the hook
inject_chat_history(inject_context, max_history, ctx0, table, p, query_fails, fs) ==
    IF ~InjectionEnabled(inject_context, max_history)
    THEN [NoReq EXCEPT !.called = TRUE, !.ctx0 = ctx0, !.contexts = ctx0]
    ELSE LET r == Reconstruct(ctx0, FetchRows(table, p, max_history), query_fails, SelfId, fs)
         IN  [called |-> TRUE, off |-> FALSE, ctx0 |-> ctx0, contexts |-> r.contexts,
              raised |-> r.raised, rows |-> r.rows,
              history_contexts |-> r.history_contexts,
              final_contexts |-> r.final_contexts,
              merged_contexts |-> r.merged_contexts, text_only |-> r.text_only]

\* the host asks the provider about a message that is no command: the
\* on_llm_request hook runs, then the reply is sent
InjectChatHistory(s, In) ==
    /\ ev[s].pc = "handle"
    /\ ev[s].cmd = ""
    /\ \E inject_context \in In.options, max_history \in 0..MaxHist, ctx0 \in In.contexts :
        \* the query runs only past the guards
        \E p \in IF InjectionEnabled(inject_context, max_history)
                  THEN QueryOrders(db, ev[s].session) ELSE {<<>>},
           query_fails \in IF InjectionEnabled(inject_context, max_history)
                            THEN In.faults ELSE {FALSE} :
            ev' = [ev EXCEPT ![s].pc = "sent",
                             ![s].req = [inject_chat_history(inject_context, max_history, ctx0,
                                                             db, p, query_fails, files)
                                            EXCEPT !.off = ~inject_context \/ max_history <= 0]]
    /\ UNCHANGED <<db, files, nfile, clock>>

\* the host sends no reply to a message that is no command
NoReply(s) ==
    /\ ev[s].pc = "handle"
    /\ ev[s].cmd = ""
    /\ ev' = [ev EXCEPT ![s] = Idle]
    /\ UNCHANGED <<db, files, nfile, clock>>

\* view_history: reads the store and replies
ViewHistory(s) ==
    /\ ev[s].pc = "handle"
    /\ ev[s].cmd = "view"
    /\ ev' = [ev EXCEPT ![s].pc = "sent", ![s].is_command_response = TRUE]
    /\ UNCHANGED <<db, files, nfile, clock>>

\* images_to_delete of clear_history (lines 283-290)
ImagesToDelete(table, sid) ==
    UNION { {image_pattern_findall(table[i].message_text)[k] :
                k \in 1..Len(image_pattern_findall(table[i].message_text))} :
            i \in SessionIdx(table, sid) }

\* DELETE FROM chat_logs WHERE session_id = ?
DeleteSession(table, sid) == SelectSeq(table, LAMBDA r : r.session_id # sid)

\* clear_history; a failing SELECT or DELETE is caught at line 304
ClearHistory(s, In) ==
    /\ ev[s].pc = "handle"
    /\ ev[s].cmd = "clear"
    /\ \E db_fails \in In.faults :
        /\ db' = IF db_fails THEN db ELSE DeleteSession(db, ev[s].session)
        /\ files' = IF db_fails THEN files
                    ELSE files \ {f \in files : <<f>> \in ImagesToDelete(db, ev[s].session)}
    /\ ev' = [ev EXCEPT ![s].pc = "sent", ![s].is_command_response = TRUE]
    /\ UNCHANGED <<nfile, clock>>

\* clear_all_history; a failing statement is caught at line 322
ClearAllHistory(s, In) ==
    /\ ev[s].pc = "handle"
    /\ ev[s].cmd = "clear_all"
    /\ \E db_fails \in In.faults :
        /\ db' = IF db_fails THEN db ELSE <<>>
        /\ files' = IF db_fails THEN files ELSE {}
        \* no row and no file is left to tell the generated names apart
        /\ nfile' = IF db_fails THEN nfile ELSE 0
    /\ ev' = [ev EXCEPT ![s].pc = "sent", ![s].is_command_response = TRUE]
    /\ UNCHANGED clock

\* the early returns of lines 123 and 125
LogBotSkips(log_self_messages, chain) == ~log_self_messages \/ chain = <<>>

\* log_bot_response, after the reply of the event was sent
LogBotResponse(s, In) ==
    /\ ev[s].pc = "sent"
    /\ IF ev[s].is_command_response
       THEN UNCHANGED <<db, files, nfile>>
       ELSE \E log_self_messages \in In.options, chain \in In.replies :
            IF LogBotSkips(log_self_messages, chain)
            THEN UNCHANGED <<db, files, nfile>>
            ELSE \E insert_fails \in In.faults :
                LET processed_text == process_message_chain(chain, nfile)
                    table == save_log_to_db(db, ev[s].session, SelfId, AssistantName,
                                            processed_text, clock, Src(chain, nfile),
                                            insert_fails)
                IN  /\ nfile + Saved(chain) <= In.files
                    /\ Len(table) <= In.rows
                    /\ MayWrite(db, clock, In)
                    /\ db' = table
                    /\ files' = files \cup SavedFiles(chain, nfile)
                    /\ nfile' = nfile + Saved(chain)
    /\ ev' = [ev EXCEPT ![s] = Idle]
    /\ UNCHANGED clock

\* a second passes; only the seconds in which a row was written are told
\* apart, since the handlers compare timestamps and never read their distance
Tick(In) ==
    /\ clock < In.seconds
    /\ db # <<>> /\ db[Len(db)].timestamp = clock
    /\ clock' = clock + 1
    /\ UNCHANGED <<db, files, nfile, ev>>

Next ==
    \/ \E s \in Serial : LogUserMessage(s, RunInputs)
    \/ \E s \in Serial : InjectChatHistory(s, RunInputs)
    \/ \E s \in Serial : NoReply(s)
    \/ \E s \in Serial : ViewHistory(s)
    \/ \E s \in Serial : ClearHistory(s, RunInputs)
    \/ \E s \in Serial : ClearAllHistory(s, RunInputs)
    \/ \E s \in Serial : LogBotResponse(s, RunInputs)
    \/ Tick(RunInputs)

Spec == Init /\ [][Next]_vars

\* a file of images_dir goes away while a row still names it (a clear of
\* another session whose rows name the same file removes it)
FileRemoved ==
    /\ \A s \in Slots : ev[s].pc = "idle"
    /\ \E f \in files : files' = files \ {f}
    /\ UNCHANGED <<db, nfile, clock, ev>>

\* the handlers applied, one event after the other, to the turns of one
\* logged group chat
NextTurns ==
    \/ \E s \in Serial : LogUserMessage(s, TurnInputs)
    \/ \E s \in Serial : InjectChatHistory(s, TurnInputs)
    \/ \E s \in Serial : NoReply(s)
    \/ \E s \in Serial : LogBotResponse(s, TurnInputs)
    \/ FileRemoved
    \/ Tick(TurnInputs)

SpecTurns == Init /\ [][NextTurns]_vars

\* the handlers applied, one event after the other, to two logged sessions
\* whose users send images and clear their history
NextClear ==
    \/ \E s \in Serial : LogUserMessage(s, ClearInputs)
    \/ \E s \in Serial : NoReply(s)
    \/ \E s \in Serial : ClearHistory(s, ClearInputs)
    \/ \E s \in Serial : LogBotResponse(s, ClearInputs)
    \/ Tick(ClearInputs)

SpecClear == Init /\ [][NextClear]_vars

\* the handlers of two events of one group chat, interleaved: each handler
\* runs to its end, and the handlers of the two events alternate freely
NextPair ==
    \/ \E s \in Slots : LogUserMessage(s, PairInputs)
    \/ \E s \in Slots : InjectChatHistory(s, PairInputs)
    \/ \E s \in Slots : NoReply(s)
    \/ \E s \in Slots : LogBotResponse(s, PairInputs)
    \/ Tick(PairInputs)

SpecPair == Init /\ [][NextPair]_vars

(* ======================================================================= *)
(*                               properties                                *)
(* ======================================================================= *)
\* the hook of the event in slot s has run
Called(s) == ev[s].pc = "sent" /\ ev[s].req.called
\* ... with injection switched on
Ran(s) == Called(s) /\ ~ev[s].req.off
\* ... and without an exception
Completed(s) == Ran(s) /\ ~ev[s].req.raised
\* ... and with at least one fetched row
Windowed(s) == Completed(s) /\ ev[s].req.rows # <<>>

\* history_rows of the call, oldest first
HistoryRows(s) == Reverse(Tail(ev[s].req.rows))
\* the residual text of a stored string: markers removed, trimmed
Residual(message_text) == strip(image_pattern_sub(message_text))

(* C1  Empty window: when the hook runs with injection switched on, without  *)
(* an exception, and the store holds no row of the event's session, then     *)
(* req.contexts after the call equals req.contexts before the call.  (The    *)
(* hook leaves the store alone and no other handler has run since.)          *)
C1_EmptyWindowUnchanged ==
    \A s \in Slots :
        Completed(s) /\ SessionIdx(db, ev[s].session) = {}
            => ev[s].req.contexts = ev[s].req.ctx0

(* C2  Concatenation: when the hook completes with a non-empty window, the   *)
(* outgoing context is the decoded history turns followed by the framework's *)
(* entries, collapsed and flattened; stated for a current row without        *)
(* markers, where the framework's entries are not enhanced.                  *)
C2_HistoryThenFramework ==
    \A s \in Slots :
        LET r == ev[s].req IN
        Windowed(s) /\ image_pattern_findall(Head(r.rows).message_text) = <<>>
                    /\ r.history_contexts \o r.ctx0 # <<>>
            => r.contexts = Flatten(MergeRoles(r.history_contexts \o r.ctx0))

(* C3  Fail-open: when the reconstruction raises, the hook still returns     *)
(* (the event goes on to "sent") and req.contexts equals req.contexts at     *)
(* entry.                                                                    *)
C3_FailOpenUnchanged ==
    \A s \in Slots :
        Ran(s) /\ ev[s].req.raised => ev[s].req.contexts = ev[s].req.ctx0

(* C4  Disabled injection: when inject_context is false or                   *)
(* max_history_messages <= 0, req.contexts after the hook equals             *)
(* req.contexts at entry, whatever the store and the context.                *)
C4_DisabledUnchanged ==
    \A s \in Slots :
        Called(s) /\ ev[s].req.off => ev[s].req.contexts = ev[s].req.ctx0

\* the hook ran with injection switched off on a non-empty context while
\* the store holds a row of the session
C4_Witness ==
    \E s \in Slots :
        /\ Called(s) /\ ev[s].req.off
        /\ ev[s].req.ctx0 # <<>>
        /\ SessionIdx(db, ev[s].session) # {}
        /\ ev[s].req.contexts = ev[s].req.ctx0

(* C5  Log-before-inject: for every event whose hook performs the history    *)
(* read, log_user_message has inserted and committed a row for that event.   *)
C5_LoggedBeforeRead ==
    \A s \in Slots : Completed(s) => ev[s].logged

\* a token occurs in the content of an entry
HasToken(entry, tok) ==
    \E i \in 1..Len(AsList(entry.content)) :
        \E j \in 1..Len(AsList(entry.content)[i].text) :
            AsList(entry.content)[i].text[j] = tok

(* C8  Image-only replacement: when the current DB turn is markers only and  *)
(* the framework's context has an entry of role user, the outgoing context   *)
(* has an entry of role user that carries the placeholder text part.         *)
C8_PlaceholderInOutgoing ==
    \A s \in Slots :
        LET r == ev[s].req IN
        Windowed(s) /\ image_pattern_findall(Head(r.rows).message_text) # <<>>
                    /\ Residual(Head(r.rows).message_text) = <<>>
                    /\ TargetIndex(r.ctx0) # 0
            => \E i \in 1..Len(r.contexts) :
                   r.contexts[i].role = "user" /\ HasToken(r.contexts[i], "L")

(* C10  Session isolation: every row the hook fetches, and so every row the  *)
(* injected history is decoded from, has the session_id of the event.        *)
C10_SessionIsolation ==
    \A s \in Slots :
        Called(s) =>
            \A k \in 1..Len(ev[s].req.rows) :
                ev[s].req.rows[k].session_id = ev[s].session

\* the hook fetched rows of its session while the store also holds a row of
\* another session
C10_Witness ==
    \E s \in Slots :
        /\ Windowed(s)
        /\ \E i \in 1..Len(db) : db[i].session_id # ev[s].session
        /\ \A k \in 1..Len(ev[s].req.rows) : ev[s].req.rows[k].session_id = ev[s].session

\* the roles of a context differ from entry to entry
NoAdjacentSameRole(contexts) ==
    \A i \in 1..(Len(contexts) - 1) : contexts[i].role # contexts[i + 1].role

RECURSIVE RoleParts(_)
\* the content parts of a context in order, each with the role of its entry
RoleParts(contexts) ==
    IF contexts = <<>> THEN <<>>
    ELSE [i \in 1..Len(AsList(Head(contexts).content)) |->
             <<Head(contexts).role, AsList(Head(contexts).content)[i]>>]
         \o RoleParts(Tail(contexts))

(* C6  Role collapse: in the context the hook writes, no two adjacent        *)
(* entries share a role, and the collapsed entries carry, entry by entry and *)
(* in the original order, exactly the content parts of the turns they        *)
(* replace (so each entry is the concatenation of its same-role run); an     *)
(* entry that holds an image is written with exactly that content list.      *)
C6_RoleCollapse ==
    \A s \in Slots :
        LET r == ev[s].req IN
        Windowed(s) =>
            /\ NoAdjacentSameRole(r.contexts)
            /\ Len(r.contexts) = Len(r.merged_contexts)
            /\ \A i \in 1..Len(r.contexts) : r.contexts[i].role = r.merged_contexts[i].role
            /\ RoleParts(r.merged_contexts) = RoleParts(r.final_contexts)
            /\ \A i \in 1..Len(r.contexts) :
                   (\E j \in 1..Len(AsList(r.merged_contexts[i].content)) :
                        AsList(r.merged_contexts[i].content)[j].type = "image_url")
                       => r.contexts[i] = r.merged_contexts[i]

\* decoded turns [user, user, assistant] were collapsed into two entries,
\* user then assistant, the first one holding the parts of both user turns
C6_Witness ==
    \E s \in Slots :
        LET r == ev[s].req IN
        /\ Windowed(s)
        /\ Len(r.final_contexts) = 3
        /\ [i \in 1..3 |-> r.final_contexts[i].role] = <<"user", "user", "assistant">>
        /\ [i \in 1..Len(r.contexts) |-> r.contexts[i].role] = <<"user", "assistant">>
        /\ r.merged_contexts[1].content.list =
               r.final_contexts[1].content.list \o r.final_contexts[2].content.list

\* display name of a stored row, with the fallback label
NameOf(row) == IF row.sender_name # <<>> THEN row.sender_name ELSE <<"u">>
\* "<name>: "
PrefixOf(row) == NameOf(row) \o <<":", " ">>
\* the file names of the markers of a stored string that resolve to a file
ResolvedCount(message_text) ==
    Cardinality({j \in 1..Len(image_pattern_findall(message_text)) :
                    /\ Len(image_pattern_findall(message_text)[j]) = 1
                    /\ image_pattern_findall(message_text)[j][1] \in files})
\* the first text part of a content list
FirstText(l) ==
    l[CHOOSE i \in 1..Len(l) : l[i].type = "text" /\ \A j \in 1..(i - 1) : l[j].type # "text"]
\* a text begins with a name prefix
Prefixed(t) == Len(t) >= 3 /\ t[1] \in {"A", "u"} /\ t[2] = ":" /\ t[3] = " "
\* number of text parts of a context that begin with a name prefix
PrefixCount(contexts) ==
    Cardinality({ij \in (1..Len(contexts)) \X (1..MaxTurns * (MaxTurnFiles + 2)) :
                    /\ ij[2] <= Len(AsList(contexts[ij[1]].content))
                    /\ AsList(contexts[ij[1]].content)[ij[2]].type = "text"
                    /\ Prefixed(AsList(contexts[ij[1]].content)[ij[2]].text)})
\* number of history rows of role user
UserRowCount(rows) == Cardinality({k \in 1..Len(rows) : rows[k].sender_id # SelfId})

(* C7 as claimed  Name prefixing: every history row of role user that has a  *)
(* text part of its own decodes to a content list whose first text part is   *)
(* "<name>: " followed by that text, also when the row carries a resolved    *)
(* image.                                                                    *)
C7_PrefixOnFirstTextPart ==
    \A s \in Slots :
        LET r == ev[s].req IN
        Windowed(s) =>
            /\ Len(r.history_contexts) = Len(HistoryRows(s))
            /\ \A k \in 1..Len(HistoryRows(s)) :
                 LET row == HistoryRows(s)[k] IN
                 row.sender_id # SelfId /\ Residual(row.message_text) # <<>>
                     => FirstText(r.history_contexts[k].content.list).text
                            = PrefixOf(row) \o Residual(row.message_text)

(* C7 amended  Name prefixing: every history row of role user decodes to a   *)
(* content list whose first part is a text part beginning with "<name>: ".   *)
(* When no image of the row resolves, the list is that one part, the prefix  *)
(* followed by the row's text (its own, or the image-only placeholder). When *)
(* an image resolves, the first part is the bare "<name>: ", then come the   *)
(* image parts, then the row's text part without a prefix. The prefix occurs *)
(* once per user row, also after the row is merged into a user run.          *)
C7_NamePrefix ==
    \A s \in Slots :
        LET r == ev[s].req IN
        Windowed(s) =>
            /\ Len(r.history_contexts) = Len(HistoryRows(s))
            /\ \A k \in 1..Len(HistoryRows(s)) :
                 LET row == HistoryRows(s)[k]
                     l == r.history_contexts[k].content.list
                     n == ResolvedCount(row.message_text)
                     text == IF Residual(row.message_text) # <<>>
                             THEN Residual(row.message_text) ELSE <<"[", "U", "]">>
                 IN  row.sender_id # SelfId =>
                        IF n = 0
                        THEN l = <<TextPart(PrefixOf(row) \o text)>>
                        ELSE /\ Len(l) = n + 2
                             /\ l[1] = TextPart(PrefixOf(row))
                             /\ \A j \in 2..(n + 1) : l[j].type = "image_url"
                             /\ l[n + 2] = TextPart(text)
            /\ PrefixCount(r.merged_contexts) = UserRowCount(HistoryRows(s))

\* a user row with text and a resolved image was decoded next to another user
\* row: its list starts with the bare prefix, and the merged user entry holds
\* one prefix per row
C7_Witness ==
    \E s \in Slots :
        LET r == ev[s].req IN
        /\ Windowed(s)
        /\ \E k \in 1..Len(HistoryRows(s)) :
            /\ HistoryRows(s)[k].sender_id # SelfId
            /\ Residual(HistoryRows(s)[k].message_text) # <<>>
            /\ ResolvedCount(HistoryRows(s)[k].message_text) = 1
            /\ r.history_contexts[k].content.list[1] = TextPart(PrefixOf(HistoryRows(s)[k]))
        /\ Len(r.merged_contexts) = 1
        /\ PrefixCount(r.merged_contexts) = 2

\* the message has a non-empty text part and every image of it was downloaded
RoundTripCase(chain) ==
    /\ \E i \in 1..Len(chain) : chain[i].kind = "Plain" /\ strip(chain[i].text) # <<>>
    /\ \A i \in 1..Len(chain) : chain[i].kind = "Image" => chain[i].dl = "ok"
\* no text part of the message holds the opening of a marker
NoMarkerText(chain) ==
    \A i \in 1..Len(chain) : \A j \in 1..Len(chain[i].text) : chain[i].text[j] # "I"
\* the image parts of the saved files that still exist, in the order of saving
ExistingImages(saved) ==
    LET kept == SelectSeq(saved, LAMBDA f : f \in files) IN
    [k \in 1..Len(kept) |-> ImagePart(<<"data:", kept[k]>>)]
RECURSIVE TextFragments(_)
\* the trimmed non-empty text fragments of a message
TextFragments(chain) ==
    IF chain = <<>> THEN <<>>
    ELSE (IF Head(chain).kind = "Plain" /\ strip(Head(chain).text) # <<>>
          THEN <<strip(Head(chain).text)>> ELSE <<>>) \o TextFragments(Tail(chain))
RECURSIVE SingleSpaced(_)
\* fragments joined by single spaces
SingleSpaced(frags) ==
    IF frags = <<>> THEN <<>>
    ELSE IF Len(frags) = 1 THEN frags[1]
    ELSE frags[1] \o <<" ">> \o SingleSpaced(Tail(frags))
RECURSIVE GapSpaced(_, _, _)
\* the text fragments of a message, one space between two neighbours of the
\* message and one more for every image that stands between them; gap is the
\* number of spaces due before the next fragment, seen says a fragment came
GapSpaced(chain, gap, seen) ==
    IF chain = <<>> THEN <<>>
    ELSE IF Head(chain).kind = "Plain" /\ strip(Head(chain).text) # <<>>
    THEN [k \in 1..(IF seen THEN gap ELSE 0) |-> " "] \o strip(Head(chain).text)
         \o GapSpaced(Tail(chain), 1, TRUE)
    ELSE IF Head(chain).kind = "Image"
    THEN GapSpaced(Tail(chain), gap + 1, seen)
    ELSE GapSpaced(Tail(chain), gap, seen)

(* C9 as claimed  Round-trip: a stored message of text parts (one non-empty) *)
(* and downloaded images decodes to one image part per image whose file      *)
(* still exists, in the images' order, followed by exactly one text part      *)
(* equal to the trimmed text fragments joined by single spaces.              *)
C9_RoundTripSingleSpaces ==
    \A i \in 1..Len(db) :
        RoundTripCase(db[i].src.chain) =>
            RowContentList(db[i].message_text, files)
                = ExistingImages(db[i].src.saved)
                  \o <<TextPart(SingleSpaced(TextFragments(db[i].src.chain)))>>

(* C9 amended  Round-trip: a stored message of text parts (one non-empty,    *)
(* none holding the opening of a marker) and downloaded images decodes to    *)
(* one image part per image whose file still exists, in the images' order,   *)
(* followed by exactly one text part: the trimmed text fragments in order,   *)
(* separated by one space plus one more space for every image that stood     *)
(* between the two fragments.  Images whose file was deleted are omitted and *)
(* the text part is the same.                                                *)
C9_RoundTrip ==
    \A i \in 1..Len(db) :
        RoundTripCase(db[i].src.chain) /\ NoMarkerText(db[i].src.chain) =>
            RowContentList(db[i].message_text, files)
                = ExistingImages(db[i].src.saved)
                  \o <<TextPart(GapSpaced(db[i].src.chain, 0, FALSE))>>

\* two stored messages of text, image, text: the file of one still exists and
\* decodes to an image part before the text, the file of the other was
\* deleted and the row decodes to the text part alone
C9_Witness ==
    \E i, j \in 1..Len(db) :
        /\ RoundTripCase(db[i].src.chain) /\ Len(db[i].src.saved) = 1
        /\ RoundTripCase(db[j].src.chain) /\ Len(db[j].src.saved) = 1
        /\ db[i].src.saved[1] \in files
        /\ db[j].src.saved[1] \notin files
        /\ Len(RowContentList(db[i].message_text, files)) = 2
        /\ RowContentList(db[i].message_text, files)[1].type = "image_url"
        /\ Len(RowContentList(db[j].message_text, files)) = 1
        /\ RowContentList(db[j].message_text, files)[1].text
               = RowContentList(db[i].message_text, files)[2].text

\* the step is a call of clear_history for the event in slot s
ClearStep(s) == ev[s].pc = "handle" /\ ev[s].cmd = "clear" /\ ev'[s].pc = "sent"
\* the file names the markers of the rows at the positions idx name
ReferencedBy(table, idx) ==
    {f \in {FileNames[k] : k \in 1..Len(FileNames)} :
        \E i \in idx : \E k \in 1..Len(image_pattern_findall(table[i].message_text)) :
            image_pattern_findall(table[i].message_text)[k] = <<f>>}

(* C11  Deletion scoping: a clear_history of session A removes all rows of A *)
(* and no other row, deletes only files that rows of A alone refer to, and   *)
(* every existing file a remaining row refers to exists afterwards.          *)
C11_ClearScoped ==
    [][\A s \in Slots :
          ClearStep(s) =>
            LET A == SessionIdx(db, ev[s].session)
                others == (1..Len(db)) \ A IN
            /\ db' = SelectSeq(db, LAMBDA r : r.session_id # ev[s].session)
            /\ (files \ files') \subseteq (ReferencedBy(db, A) \ ReferencedBy(db, others))
            /\ \A f \in ReferencedBy(db', 1..Len(db')) : f \in files => f \in files']_vars

(* C12  Current-turn identity: when the hook of an event whose message was   *)
(* logged completes, the newest fetched row, which the hook splits off as    *)
(* the current turn, is the row inserted for that event, and that row is not *)
(* among the rows decoded as history; also when the handlers of two events   *)
(* of the session interleave.  (Every row has a second of its own here, so   *)
(* equal rows are the same row.)                                             *)
C12_CurrentIsOwn ==
    \A s \in Slots :
        Completed(s) /\ ev[s].logged =>
            /\ ev[s].req.rows # <<>>
            /\ Head(ev[s].req.rows) = db[ev[s].own]
            /\ \A k \in 1..Len(HistoryRows(s)) : HistoryRows(s)[k] # db[ev[s].own]

\* the rows of a session in insertion (id) order
SessionRows(table, sid) == SelectSeq(table, LAMBDA r : r.session_id = sid)

(* C13  Recency order: the rows the hook fetches are the most recently       *)
(* inserted rows of the session, newest first in insertion order, also when  *)
(* several rows carry the same timestamp; so the row split off as current is *)
(* the last inserted row.                                                    *)
C13_NewestFirstInsertion ==
    \A s \in Slots :
        Completed(s) =>
            ev[s].req.rows = SubSeq(Reverse(SessionRows(db, ev[s].session)),
                                    1, Len(ev[s].req.rows))

(* C14  History window: the history rows of a call are the rows immediately  *)
(* preceding the newest row of the session, oldest first; every one of them  *)
(* contributes exactly one turn, of role assistant iff its sender_id is the  *)
(* bot's own id.                                                             *)
C14_HistoryWindow ==
    \A s \in Slots :
        LET r == ev[s].req
            all == SessionRows(db, ev[s].session)
            n == Len(HistoryRows(s)) IN
        Windowed(s) =>
            /\ HistoryRows(s) = SubSeq(all, Len(all) - n, Len(all) - 1)
            /\ Len(r.history_contexts) = n
            /\ \A k \in 1..n :
                   r.history_contexts[k].role = "assistant"
                       <=> HistoryRows(s)[k].sender_id = SelfId

\* the file names _download_image has generated so far
GeneratedNames == {FileNames[k] : k \in 1..nfile}

(* C15  Marker provenance: every marker contained in the message_text of a   *)
(* stored row names a file that the image download saved (one generated      *)
(* file name).                                                               *)
C15_MarkersNameSavedFiles ==
    \A i \in 1..Len(db) :
        \A k \in 1..Len(image_pattern_findall(db[i].message_text)) :
            LET name == image_pattern_findall(db[i].message_text)[k] IN
            Len(name) = 1 /\ name[1] \in GeneratedNames

\* a content list holds an image part
HasImage(l) == \E j \in 1..Len(l) : l[j].type = "image_url"

(* C16  Flattening: in the context a completed call writes, every entry is   *)
(* either a string, namely the texts of the entry's parts joined by one      *)
(* space and trimmed, or a list that holds at least one image part (the      *)
(* entry's parts unchanged); no entry is a list of text parts only.          *)
C16_Flattened ==
    \A s \in Slots :
        LET r == ev[s].req IN
        Completed(s) =>
            /\ Len(r.contexts) = Len(r.merged_contexts)
            /\ \A i \in 1..Len(r.contexts) :
                 LET parts == AsList(r.merged_contexts[i].content)
                     c == r.contexts[i].content IN
                 IF HasImage(parts)
                 THEN c.isList /\ c.list = parts
                 ELSE /\ ~c.isList
                      /\ c.str = strip(SingleSpaced([j \in 1..Len(parts) |-> parts[j].text]))

\* a completed call wrote one entry as a string and another entry, merged
\* from parts with an image among them, as a list
C16_Witness ==
    \E s \in Slots :
        LET r == ev[s].req IN
        /\ Windowed(s)
        /\ \E i, j \in 1..Len(r.contexts) :
            /\ ~r.contexts[i].content.isList
            /\ r.merged_contexts[i].content.isList
            /\ r.contexts[i].content.str # <<>>
            /\ r.contexts[j].content.isList
            /\ HasImage(r.contexts[j].content.list)

\* the names captured by the markers of a stored string whose file exists
ExistingNames(message_text) ==
    SelectSeq(image_pattern_findall(message_text),
              LAMBDA name : Len(name) = 1 /\ name[1] \in files)
\* the image parts of a content list
ImagesOf(l) == SelectSeq(l, LAMBDA part : part.type = "image_url")
RECURSIVE TextOf(_)
\* the texts of the text parts of a content list, one after the other
TextOf(l) ==
    IF l = <<>> THEN <<>>
    ELSE (IF Head(l).type = "text" THEN Head(l).text ELSE <<>>) \o TextOf(Tail(l))

(* C17  Missing-image soft-fail: a call whose history rows hold markers of   *)
(* absent files completes without an exception; every history row still      *)
(* gives one turn, whose image parts are those of the markers whose file      *)
(* exists, in order, and whose text is the row's text (with the name prefix  *)
(* for a user row), the same whether or not the files exist.                 *)
C17_MissingImageSkipped ==
    \A s \in Slots :
        LET r == ev[s].req IN
        Ran(s) /\ r.rows # <<>> =>
            /\ ~r.raised
            /\ Len(r.history_contexts) = Len(HistoryRows(s))
            /\ \A k \in 1..Len(HistoryRows(s)) :
                 LET row == HistoryRows(s)[k]
                     l == r.history_contexts[k].content.list
                     names == ExistingNames(row.message_text)
                     text == IF Residual(row.message_text) # <<>>
                             THEN Residual(row.message_text) ELSE <<"[", "U", "]">>
                 IN  /\ ImagesOf(l) = [j \in 1..Len(names) |-> ImagePart(<<"data:">> \o names[j])]
                     /\ TextOf(l) = (IF row.sender_id # SelfId THEN PrefixOf(row) ELSE <<>>)
                                    \o text

\* a call decoded a history row with two markers of which one file is absent:
\* the turn holds the one image part that is left
C17_Witness ==
    \E s \in Slots :
        /\ Windowed(s)
        /\ \E k \in 1..Len(HistoryRows(s)) :
            /\ Len(image_pattern_findall(HistoryRows(s)[k].message_text)) = 2
            /\ Len(ExistingNames(HistoryRows(s)[k].message_text)) = 1
            /\ Len(ImagesOf(ev[s].req.history_contexts[k].content.list)) = 1

\* the step is a call of clear_history or clear_all_history
RemovalStep ==
    \E s \in Slots : /\ ev[s].pc = "handle" /\ ev[s].cmd \in {"clear", "clear_all"}
                     /\ ev'[s].pc = "sent"
\* the step is a call of inject_chat_history or view_history
ReadStep ==
    \E s \in Slots : /\ ev[s].pc = "handle" /\ ev[s].cmd \in {"", "view"}
                     /\ ev'[s].pc = "sent"

(* C18  Append-only store: a step that is no call of clear_history or        *)
(* clear_all_history leaves every stored row as it is and in its place, and  *)
(* adds at most one row, whose message_text is not empty; a call of          *)
(* inject_chat_history or view_history leaves the store unchanged.           *)
C18_AppendOnly ==
    [][/\ ~RemovalStep =>
            \/ db' = db
            \/ /\ Len(db') = Len(db) + 1
               /\ SubSeq(db', 1, Len(db)) = db
               /\ db'[Len(db')].message_text # <<>>
       /\ ReadStep => db' = db]_vars

\* a call of the hook has read a store of two rows, written by
\* log_user_message and log_bot_response, and left it as it was
C18_Witness ==
    \E s \in Slots :
        /\ Windowed(s)
        /\ Len(ev[s].req.rows) = 2
        /\ \E i, j \in 1..Len(db) : db[i].sender_id = SelfId /\ db[j].sender_id # SelfId

\* the text of the message a row was made from starts with "/"
FromSlashMessage(row) ==
    LET t == SingleSpaced(TextFragments(row.src.chain)) IN t # <<>> /\ t[1] = "/"
\* the step is the call of log_bot_response for the reply of a command
CommandReplyStep ==
    \E s \in Slots : ev[s].pc = "sent" /\ ev[s].cmd # "" /\ ev'[s].pc = "idle"

(* C19  Command traffic is never persisted: no stored row of a user comes    *)
(* from a message whose text starts with "/"; every event handled by a       *)
(* command has is_command_response set when its reply is sent, and the call  *)
(* of log_bot_response for that reply stores nothing.                        *)
C19_CommandsNotStored ==
    [][/\ \A i \in 1..Len(db') : db'[i].sender_id # SelfId => ~FromSlashMessage(db'[i])
       /\ \A s \in Slots : ev'[s].pc = "sent" /\ ev'[s].cmd # "" => ev'[s].is_command_response
       /\ CommandReplyStep => db' = db]_vars

\* the reply of a command is about to be handed to log_bot_response while
\* the store holds a row, and the command's own message is not among the rows
C19_Witness ==
    \E s \in Slots :
        /\ ev[s].pc = "sent" /\ ev[s].cmd = "view" /\ ev[s].is_command_response
        /\ SessionIdx(db, ev[s].session) # {}
        /\ \A i \in 1..Len(db) : ~FromSlashMessage(db[i])

====
